---- MODULE Spec2Model ----
(***************************************************************************)
(* State-machine model of the MoleditPy installer                          *)
(* (moleditpy_installer/main.py): the executable locator, the environment  *)
(* wrapping decision, shortcut creation/removal and the registration and   *)
(* recursive removal of the file associations in the user registry.        *)
(*                                                                         *)
(* Python strings are modelled as sequences of tokens, so that an f-string *)
(* is a concatenation and quoting is visible in the result.  Registry keys *)
(* are paths below HKEY_CURRENT_USER\Software\Classes.                     *)
(***************************************************************************)
EXTENDS Integers, Sequences, FiniteSets, TLC

VARIABLES
    system,             \* platform.system() of the machine
    reg,                \* registry: existing key path -> default value
    files,              \* shortcut artifacts: existing location -> contents
    pc,                 \* position of the running command ("done": returned)
    op,                 \* command of the current/last run: none, install, remove
    icon_path,          \* install(): icon_path
    icon_exists,        \* result of os.path.exists(icon_path) during the run
    conda_env,          \* install(): conda_env
    conda_exe,          \* install(): conda_exe
    original_exe_path,  \* install(): original_exe_path
    full_command,       \* install(): full_command
    shortcut_path,      \* remove_shortcut(): shortcut_path
    ext_i,              \* index of the extension loop (register / unregister)
    stack,              \* call stack of delete_registry_tree
    stdout,             \* lines printed by the current run that tell how a
                        \* step ended (progress lines naming paths are left out)
    faulted,            \* an OS call of the current run failed on its own
                        \* (not because its target is absent)
    mutated,            \* the current run has modified reg or files
    preEmpty,           \* the current run started with no artifacts at all
    prevInstall,        \* the run before: its inputs if it was an install in
                        \* which every step succeeded, else NoRun
    probe,              \* find_executable alone: its argument and what the
                        \* file system and shutil.which answer
    located             \* find_executable alone: its result

vars == <<system, reg, files, pc, op, icon_path, icon_exists, conda_env,
          conda_exe, original_exe_path, full_command, shortcut_path, ext_i,
          stack, stdout, faulted, mutated, preEmpty, prevInstall, probe,
          located>>

-----------------------------------------------------------------------------
(* Python values *)

\* Python's None, kept apart from every string (the empty string is <<>>)
None == <<"<None>">>

\* truth value of an Optional[str]: None and "" are false
Truthy(s) == s # None /\ s # <<>>

Systems == {"Windows", "Linux", "Darwin", "Java"}

command_name == <<"moleditpy">>

-----------------------------------------------------------------------------
(* find_executable *)

LocalDir == "/opt/py env/bin/"
PathDir == "/usr/bin/"

Suffixes == {".exe", ".EXE"}

\* Path.suffix
Suffix(p) == IF Len(p) > 0 /\ p[Len(p)] \in Suffixes THEN p[Len(p)] ELSE ""

\* Path.with_suffix
with_suffix(p, s) ==
    IF Suffix(p) = "" THEN Append(p, s) ELSE Append(SubSeq(p, 1, Len(p) - 1), s)

\* str.endswith
endswith(s, t) == Len(s) > 0 /\ s[Len(s)] = t

\* candidate_path before the existence test
CandidatePath(name, sys) ==
    LET candidate == <<LocalDir>> \o name
    IN  IF sys = "Windows" /\ Suffix(candidate) = ""
        THEN with_suffix(candidate, ".exe")
        ELSE candidate

find_executable_PathFirst(name, sys, is_file, x_ok, which) ==
    IF Truthy(which) THEN which
    ELSE IF is_file /\ x_ok THEN CandidatePath(name, sys)
    ELSE None

find_executable(name, sys, is_file, x_ok, which) ==
    LET candidate_path == CandidatePath(name, sys)
    IN  IF is_file /\ x_ok
        THEN IF sys = "Windows" /\ Suffix(candidate_path) = ".EXE"
             THEN with_suffix(candidate_path, ".exe")
             ELSE candidate_path
        ELSE IF Truthy(which)
        THEN IF sys = "Windows" /\ endswith(which, ".EXE")
             THEN SubSeq(which, 1, Len(which) - 1) \o <<".exe">>
             ELSE which
        ELSE None

NotFound_Never(exe) == FALSE

\* install(): "if not original_exe_path"
NotFound(exe) == ~Truthy(exe)

\* what shutil.which(name) can answer on each platform
WhichResults(sys) ==
    IF sys = "Windows"
    THEN {None, <<PathDir>> \o command_name \o <<".exe">>,
                <<PathDir>> \o command_name \o <<".EXE">>}
    ELSE {None, <<PathDir>> \o command_name}

-----------------------------------------------------------------------------
(* get_icon_path *)

IconName(sys) ==
    CASE sys = "Windows" -> "icon.ico"
      [] sys = "Darwin"  -> "icon.icns"
      [] sys = "Linux"   -> "icon.png"
      [] OTHER           -> ""

\* the values get_icon_path() can return
IconResults(sys) ==
    IF IconName(sys) = "" THEN {None}
    ELSE {None, <<"/pkg/data/", IconName(sys)>>}

-----------------------------------------------------------------------------
(* environment wrapping *)

CondaEnvs == {None, <<>>, <<"base">>, <<"envA">>}
CondaExes == {None, <<>>, <<"/conda dir/conda">>}

UseCondaRun_NoBaseCheck(env, exe) == Truthy(env) /\ Truthy(exe)

\* the condition of the wrapping branch
UseCondaRun(env, exe) == Truthy(env) /\ Truthy(exe) /\ env # <<"base">>

target_script(env, cexe, exe) == IF UseCondaRun(env, cexe) THEN cexe ELSE exe

target_args(env, cexe, exe) ==
    IF UseCondaRun(env, cexe)
    THEN <<"run -n ">> \o env \o <<" \"">> \o exe \o <<"\"">>
    ELSE <<>>

FullCommand(script, args) ==
    IF args # <<>> THEN <<"\"">> \o script \o <<"\" ">> \o args ELSE script

-----------------------------------------------------------------------------
(* the registry (winreg), below HKEY_CURRENT_USER\Software\Classes *)

prog_id == "MoleditPy.File"
app_name == "MoleditPy"
extensions == <<".pmeprj", ".pmeraw">>

ProgIdKey == <<prog_id>>
IconKey == <<prog_id, "DefaultIcon">>
CommandKey == <<prog_id, "shell", "open", "command">>
ExtKey(i) == <<extensions[i]>>

EmptyReg == [k \in {} |-> None]
EmptyFiles == [l \in {} |-> None]

Prefixes(path) == {SubSeq(path, 1, n) : n \in 1..Len(path)}

\* winreg.CreateKey: opens the key, creating it (and missing ancestors)
CreateKey(r, path) ==
    [k \in DOMAIN r \cup Prefixes(path) |-> IF k \in DOMAIN r THEN r[k] ELSE None]

\* winreg.SetValue(key, "", REG_SZ, v): the key's default value
SetValue(r, path, v) == [r EXCEPT ![path] = v]

\* the direct subkeys of a key
SubKeys(r, path) ==
    {k \in DOMAIN r : Len(k) = Len(path) + 1 /\ SubSeq(k, 1, Len(path)) = path}

\* winreg.DeleteKey succeeds on an existing key without subkeys
CanDeleteKey(r, path) == path \in DOMAIN r /\ SubKeys(r, path) = {}
DeleteKey(r, path) == [k \in DOMAIN r \ {path} |-> r[k]]

OpenCommand_OfShortcut(exe_path) == <<"\"">> \o full_command \o <<"\" \"%1\"">>

\* the open command written under shell\open\command
OpenCommand(exe_path) == <<"\"">> \o exe_path \o <<"\" \"%1\"">>

-----------------------------------------------------------------------------
(* shortcut artifacts (pyshortcuts.make_shortcut and remove_shortcut) *)

RoamingAppData == <<"C:/Users/u/AppData/Roaming">>
HomeDir == <<"HOME">>

StartMenuLnk(appdata) ==
    appdata \o <<"/Microsoft/Windows/Start Menu/Programs/MoleditPy.lnk">>
LinuxDesktopFile == HomeDir \o <<"/.local/share/applications/MoleditPy.desktop">>
DarwinDesktopApp == HomeDir \o <<"/Desktop/MoleditPy.app">>

\* where make_shortcut puts the artifact for the placement flags install()
\* passes: the start menu (Windows, Linux) or the desktop (Darwin).  The
\* folder is the one the platform reports for the user; it does not depend on
\* the environment variables of the run that removes the shortcut later.
MakeShortcutLocation(sys) ==
    CASE sys = "Windows" -> StartMenuLnk(RoamingAppData)
      [] sys = "Linux"   -> LinuxDesktopFile
      [] sys = "Darwin"  -> DarwinDesktopApp

\* remove_shortcut(): the path computed by convention (None: not computed)
RemovalPath(sys, appdata) ==
    CASE sys = "Windows" -> IF Truthy(appdata) THEN StartMenuLnk(appdata) ELSE None
      [] sys = "Linux"   -> LinuxDesktopFile
      [] sys = "Darwin"  -> DarwinDesktopApp

\* os.environ.get("APPDATA")
AppDataValues == {None, RoamingAppData}

NoArtifacts == reg = EmptyReg /\ files = EmptyFiles

-----------------------------------------------------------------------------
(* bookkeeping shared by the actions *)

NoRun == [ok |-> FALSE]

Track == mutated' = (mutated \/ reg' # reg \/ files' # files)

Say(lines) == stdout' = stdout \o lines

InstallLocals == <<icon_path, icon_exists, conda_env, conda_exe,
                   original_exe_path, full_command>>

\* what the finished run leaves for the next one to compare with
Summary ==
    IF op = "install" /\ pc = "done" /\ ~faulted /\ Truthy(original_exe_path)
       /\ system # "Java"
    THEN [ok |-> TRUE, exe |-> original_exe_path, icon |-> icon_path,
          icon_exists |-> icon_exists, command |-> full_command]
    ELSE NoRun

\* no run in progress and nothing left from an earlier one
Idle ==
    /\ pc = "idle"
    /\ op = "none"
    /\ icon_path = None
    /\ icon_exists = FALSE
    /\ conda_env = None
    /\ conda_exe = None
    /\ original_exe_path = None
    /\ full_command = None
    /\ shortcut_path = None
    /\ ext_i = 1
    /\ stack = <<>>
    /\ stdout = <<>>
    /\ faulted = FALSE
    /\ mutated = FALSE
    /\ prevInstall = NoRun

NoProbe == [name |-> command_name, is_file |-> FALSE, x_ok |-> FALSE, which |-> None]

\* a machine on which the installer has never run
Init ==
    /\ system \in Systems
    /\ reg = EmptyReg
    /\ files = EmptyFiles
    /\ Idle
    /\ preEmpty = TRUE
    /\ probe = NoProbe
    /\ located = None

-----------------------------------------------------------------------------
(* install() *)

\* install(), up to the command line of the shortcut
StartInstall ==
    /\ pc = "idle"
    /\ \E icon \in IconResults(system), iex \in BOOLEAN,
          env \in CondaEnvs, cexe \in CondaExes,
          sibling \in BOOLEAN, which \in WhichResults(system) :
        LET exe == find_executable(command_name, system, sibling, sibling, which)
        IN  /\ (icon = None => ~iex)
            /\ op' = "install"
            /\ icon_path' = icon
            /\ icon_exists' = iex
            /\ conda_env' = env
            /\ conda_exe' = cexe
            /\ original_exe_path' = exe
            /\ IF NotFound(exe)
               THEN /\ full_command' = None
                    /\ pc' = "done"
                    /\ stdout' = <<"Searching for the executable",
                                   "Error: Command not found">>
               ELSE /\ full_command' = FullCommand(target_script(env, cexe, exe),
                                                   target_args(env, cexe, exe))
                    /\ pc' = "make_shortcut"
                    /\ stdout' = <<"Searching for the executable">>
    /\ preEmpty' = NoArtifacts
    /\ faulted' = FALSE
    /\ mutated' = FALSE
    /\ shortcut_path' = None
    /\ ext_i' = 1
    /\ UNCHANGED <<system, reg, files, stack, prevInstall, probe, located>>

\* the step after the shortcut block: registration on Windows only
AfterShortcut_Skip(sys, exe) == "done"

AfterShortcut(sys, exe) ==
    IF sys = "Windows" /\ Truthy(exe) THEN "reg_progid" ELSE "done"

\* install(): the try block that calls make_shortcut (conda_env and conda_exe
\* are dead from here on and are dropped)
MakeShortcut ==
    /\ pc = "make_shortcut"
    /\ IF system \in {"Windows", "Linux", "Darwin"}
       THEN \E fails \in BOOLEAN :
              /\ faulted' = (faulted \/ fails)
              /\ IF fails
                 THEN /\ files' = files
                      /\ Say(<<"Creating shortcut", "Failed to create shortcut">>)
                 ELSE /\ files' = [l \in DOMAIN files \cup {MakeShortcutLocation(system)} |->
                                     IF l = MakeShortcutLocation(system)
                                     THEN [script |-> full_command, icon |-> icon_path]
                                     ELSE files[l]]
                      /\ Say(<<"Creating shortcut", "Successfully created">>)
              /\ pc' = AfterShortcut(system, original_exe_path)
       ELSE /\ Say(<<"Creating shortcut", "Shortcut creation is not supported">>)
            /\ pc' = "done"
            /\ UNCHANGED <<files, faulted>>
    /\ conda_env' = None
    /\ conda_exe' = None
    /\ UNCHANGED <<system, reg, op, icon_path, icon_exists, original_exe_path,
                   full_command, shortcut_path, ext_i, stack, preEmpty, prevInstall,
                   probe, located>>
    /\ Track

\* the except branch of register_file_associations_windows, and install()'s
\* closing lines
RegisterFailed(before) ==
    /\ faulted' = TRUE
    /\ pc' = "done"
    /\ Say(before \o <<"Failed to register file associations",
                       "You can remove the shortcut">>)

\* one "with CreateKey(path): SetValue(value)" block and what follows it
WriteKey(path, value, nextpc, before, after) ==
    \E outcome \in {"ok", "create_fails", "set_fails"} :
        CASE outcome = "ok" ->
               /\ reg' = SetValue(CreateKey(reg, path), path, value)
               /\ pc' = nextpc
               /\ Say(before \o after)
               /\ UNCHANGED faulted
          [] outcome = "create_fails" ->
               /\ reg' = reg
               /\ RegisterFailed(before)
          [] outcome = "set_fails" ->
               /\ reg' = CreateKey(reg, path)
               /\ RegisterFailed(before)

RegisterFrame == <<system, files, op, InstallLocals, shortcut_path, stack,
                   preEmpty, prevInstall, probe, located>>

\* register_file_associations_windows: create the ProgID
RegProgId ==
    /\ pc = "reg_progid"
    /\ WriteKey(ProgIdKey, <<app_name, " File">>, "reg_icon",
                <<"Registering file associations...">>, <<>>)
    /\ UNCHANGED <<RegisterFrame, ext_i>>
    /\ Track

\* register_file_associations_windows: set the default icon
RegIcon ==
    /\ pc = "reg_icon"
    /\ IF Truthy(icon_path) /\ icon_exists
       THEN WriteKey(IconKey, icon_path, "reg_command", <<>>, <<>>)
       ELSE /\ pc' = "reg_command"
            /\ UNCHANGED <<reg, stdout, faulted>>
    /\ UNCHANGED <<RegisterFrame, ext_i>>
    /\ Track

RegCommand_Append ==
    /\ pc = "reg_command"
    /\ WriteKey(CommandKey,
                IF CommandKey \in DOMAIN reg /\ reg[CommandKey] # None
                THEN reg[CommandKey] \o OpenCommand(original_exe_path)
                ELSE OpenCommand(original_exe_path),
                "reg_ext", <<>>, <<>>)
    /\ UNCHANGED <<RegisterFrame, ext_i>>
    /\ Track

\* register_file_associations_windows: set the open command
RegCommand ==
    /\ pc = "reg_command"
    /\ WriteKey(CommandKey, OpenCommand(original_exe_path), "reg_ext", <<>>, <<>>)
    /\ UNCHANGED <<RegisterFrame, ext_i>>
    /\ Track

\* register_file_associations_windows: one round of the extension loop; the
\* last round returns True and install() prints its closing lines
RegExt ==
    /\ pc = "reg_ext"
    /\ IF ext_i < Len(extensions)
       THEN WriteKey(ExtKey(ext_i), <<prog_id>>, "reg_ext", <<>>,
                     <<"Associated " \o extensions[ext_i]>>)
       ELSE WriteKey(ExtKey(ext_i), <<prog_id>>, "done", <<>>,
                     <<"Associated " \o extensions[ext_i],
                       "File associations registered successfully.",
                       "You can remove the shortcut">>)
    /\ ext_i' = IF pc' = "reg_ext" THEN ext_i + 1 ELSE ext_i
    /\ UNCHANGED RegisterFrame
    /\ Track

Install == StartInstall \/ MakeShortcut \/ RegProgId \/ RegIcon \/ RegCommand \/ RegExt

-----------------------------------------------------------------------------
(* remove_shortcut() *)

RemoveFrame == <<system, op, InstallLocals, shortcut_path, preEmpty, prevInstall,
                 probe, located>>

keys_to_remove_FirstOnly == <<ExtKey(1)>>

\* unregister_file_associations_windows: keys_to_remove
keys_to_remove == <<ExtKey(1), ExtKey(2)>>

\* remove_shortcut(), up to the call of unregister_file_associations_windows
\* (Windows) or to the test of the shortcut path (Linux, Darwin)
StartRemove ==
    /\ pc = "idle"
    /\ op' = "remove"
    /\ \E appdata \in AppDataValues :
         /\ (system # "Windows" => appdata = None)
         /\ shortcut_path' = IF system = "Java" THEN None
                             ELSE RemovalPath(system, appdata)
    /\ CASE system = "Windows" ->
              /\ pc' = "unreg_ext"
              /\ stdout' = <<"Unregistering file associations...">>
         [] system \in {"Linux", "Darwin"} ->
              /\ pc' = "rm_shortcut"
              /\ stdout' = <<>>
         [] OTHER ->
              /\ pc' = "done"
              /\ stdout' = <<"Removal not fully supported/automated for OS">>
    /\ preEmpty' = NoArtifacts
    /\ faulted' = FALSE
    /\ mutated' = FALSE
    /\ icon_path' = None
    /\ icon_exists' = FALSE
    /\ conda_env' = None
    /\ conda_exe' = None
    /\ original_exe_path' = None
    /\ full_command' = None
    /\ ext_i' = 1
    /\ UNCHANGED <<system, reg, files, stack, prevInstall, probe, located>>

\* a frame of delete_registry_tree(key, sub_key): path is key\sub_key
Frame(path) == [path |-> path, at |-> "open", i |-> 0, n |-> 0]

\* unregister_file_associations_windows: one round of the loop over
\* keys_to_remove; after the last one delete_registry_tree is called
UnregExt ==
    /\ pc = "unreg_ext"
    /\ ext_i <= Len(keys_to_remove)
    /\ LET key_path == keys_to_remove[ext_i]
       IN  \E fails \in BOOLEAN :
             IF fails \/ (key_path \in DOMAIN reg /\ ~CanDeleteKey(reg, key_path))
             THEN /\ faulted' = (faulted \/ fails)
                  /\ reg' = reg
                  /\ Say(<<"Failed to remove " \o key_path[1]>>)
             ELSE IF key_path \in DOMAIN reg
             THEN /\ reg' = DeleteKey(reg, key_path)
                  /\ Say(<<"Removed registry key: " \o key_path[1]>>)
                  /\ UNCHANGED faulted
             ELSE \* FileNotFoundError: already gone
                  UNCHANGED <<reg, stdout, faulted>>
    /\ IF ext_i < Len(keys_to_remove)
       THEN /\ ext_i' = ext_i + 1
            /\ UNCHANGED <<pc, stack>>
       ELSE /\ ext_i' = 1
            /\ pc' = "drt"
            /\ stack' = <<Frame(ProgIdKey)>>
    /\ UNCHANGED <<RemoveFrame, files>>
    /\ Track

Top == stack[Len(stack)]
Pop == SubSeq(stack, 1, Len(stack) - 1)

\* delete_registry_tree returns: to the frame that called it, or to
\* unregister_file_associations_windows, which prints and returns
Return(result) ==
    IF Len(stack) > 1
    THEN /\ stack' = Pop
         /\ UNCHANGED <<pc, stdout>>
    ELSE /\ stack' = <<>>
         /\ pc' = "rm_shortcut"
         /\ Say((IF result THEN <<"Removed registry tree">> ELSE <<>>)
                \o <<"File associations unregistered.">>)

RangeEnd_OneShort(count) == IF count > 0 THEN count - 1 ELSE 0

\* the end of range(0, info[0])
RangeEnd(count) == count

\* delete_registry_tree: OpenKey and QueryInfoKey
DrtOpen ==
    /\ pc = "drt"
    /\ Top.at = "open"
    /\ \E fails \in BOOLEAN :
         IF fails \/ Top.path \notin DOMAIN reg
         THEN /\ faulted' = (faulted \/ fails)
              /\ Return(FALSE)
         ELSE /\ stack' = [stack EXCEPT ![Len(stack)] =
                     [@ EXCEPT !.at = "loop", !.i = 0,
                               !.n = RangeEnd(Cardinality(SubKeys(reg, Top.path)))]]
              /\ UNCHANGED <<pc, stdout, faulted>>
    /\ UNCHANGED <<RemoveFrame, reg, files, ext_i>>
    /\ Track

\* delete_registry_tree: one round of the loop: EnumKey(current_key, 0) and
\* the recursive call on the subkey it names
DrtEnum ==
    /\ pc = "drt"
    /\ Top.at = "loop"
    /\ Top.i < Top.n
    /\ \E fails \in BOOLEAN :
         IF fails \/ SubKeys(reg, Top.path) = {}
         THEN /\ faulted' = (faulted \/ fails)
              /\ Return(FALSE)
         ELSE /\ \E subkey \in SubKeys(reg, Top.path) :
                    stack' = Append([stack EXCEPT ![Len(stack)].i = @ + 1],
                                    Frame(subkey))
              /\ UNCHANGED <<pc, stdout, faulted>>
    /\ UNCHANGED <<RemoveFrame, reg, files, ext_i>>
    /\ Track

\* delete_registry_tree: after the loop, CloseKey and DeleteKey(key, sub_key)
DrtDelete ==
    /\ pc = "drt"
    /\ Top.at = "loop"
    /\ Top.i >= Top.n
    /\ \E fails \in BOOLEAN :
         IF fails \/ ~CanDeleteKey(reg, Top.path)
         THEN /\ faulted' = (faulted \/ fails)
              /\ reg' = reg
              /\ Return(FALSE)
         ELSE /\ reg' = DeleteKey(reg, Top.path)
              /\ Return(TRUE)
              /\ UNCHANGED faulted
    /\ UNCHANGED <<RemoveFrame, files, ext_i>>
    /\ Track

ShortcutFound_PathOnly(path, fs) == path # None

\* remove_shortcut(): shortcut_path and shortcut_path.exists()
ShortcutFound(path, fs) == path # None /\ path \in DOMAIN fs

\* remove_shortcut(): delete the shortcut, or report that there is none
RemoveShortcutFile ==
    /\ pc = "rm_shortcut"
    /\ IF ShortcutFound(shortcut_path, files)
       THEN \E fails \in BOOLEAN :
              IF fails \/ shortcut_path \notin DOMAIN files
              THEN /\ faulted' = (faulted \/ fails)
                   /\ files' = files
                   /\ Say(<<"Failed to remove shortcut">>)
              ELSE /\ files' = [l \in DOMAIN files \ {shortcut_path} |-> files[l]]
                   /\ Say(<<"Removed shortcut">>)
                   /\ UNCHANGED faulted
       ELSE /\ Say(<<"Shortcut not found at expected location">>)
            /\ UNCHANGED <<files, faulted>>
    /\ pc' = "done"
    /\ UNCHANGED <<RemoveFrame, reg, ext_i, stack>>
    /\ Track

Remove == StartRemove \/ UnregExt \/ DrtOpen \/ DrtEnum \/ DrtDelete \/ RemoveShortcutFile

\* main(): the command has returned and the process exits with status 0;
\* its locals and output are gone, the artifacts stay
Exit ==
    /\ pc = "done"
    /\ pc' = "idle"
    /\ op' = "none"
    /\ prevInstall' = Summary
    /\ icon_path' = None
    /\ icon_exists' = FALSE
    /\ conda_env' = None
    /\ conda_exe' = None
    /\ original_exe_path' = None
    /\ full_command' = None
    /\ shortcut_path' = None
    /\ ext_i' = 1
    /\ stdout' = <<>>
    /\ faulted' = FALSE
    /\ mutated' = FALSE
    /\ preEmpty' = NoArtifacts
    /\ UNCHANGED <<system, reg, files, stack, probe, located>>

Next == Install \/ Remove \/ Exit

Spec == Init /\ [][Next]_vars

-----------------------------------------------------------------------------
(* find_executable on its own, over every answer of the file system *)

\* names find_executable may be given: the command, with or without suffix
ProbeNames == {command_name, command_name \o <<".exe">>, command_name \o <<".EXE">>}

\* what shutil.which(name) can answer for a name
WhichFor(sys, name) ==
    {None, <<PathDir>> \o name}
    \cup (IF sys = "Windows" /\ Suffix(name) = ""
          THEN {<<PathDir>> \o name \o <<".exe">>, <<PathDir>> \o name \o <<".EXE">>}
          ELSE {})

InitLocate ==
    /\ system \in Systems
    /\ reg = EmptyReg
    /\ files = EmptyFiles
    /\ Idle
    /\ preEmpty = TRUE
    /\ \E name \in ProbeNames, is_file \in BOOLEAN, x_ok \in BOOLEAN :
         \E which \in WhichFor(system, name) :
            probe = [name |-> name, is_file |-> is_file, x_ok |-> x_ok,
                     which |-> which]
    /\ located = None

\* one call of find_executable(name)
Locate ==
    /\ pc = "idle"
    /\ pc' = "located"
    /\ located' = find_executable(probe.name, system, probe.is_file, probe.x_ok,
                                  probe.which)
    /\ UNCHANGED <<system, reg, files, op, InstallLocals, shortcut_path, ext_i,
                   stack, stdout, faulted, mutated, preEmpty, prevInstall, probe>>

NextLocate == Locate

SpecLocate == InitLocate /\ [][NextLocate]_vars

-----------------------------------------------------------------------------
(* removal from a registry in which the ProgID holds an arbitrary subtree *)

MaxKeys == 5

SubKeyNames == {"shell", "open"}

\* the sets of keys that form a tree rooted at the ProgID, of at most n keys
RECURSIVE TreesUpTo(_)
TreesUpTo(n) ==
    IF n <= 1 THEN {{ProgIdKey}}
    ELSE LET smaller == TreesUpTo(n - 1)
         IN  smaller \cup
             UNION {{t \cup {Append(k, c)} : k \in t, c \in SubKeyNames} :
                    t \in smaller}

InitTree ==
    /\ system = "Windows"
    /\ \E t \in TreesUpTo(MaxKeys) : reg = [k \in t |-> None]
    /\ files = EmptyFiles
    /\ Idle
    /\ preEmpty = FALSE
    /\ probe = NoProbe
    /\ located = None

NextTree == Remove \/ Exit

SpecTree == InitTree /\ [][NextTree]_vars
-----------------------------------------------------------------------------
(* The properties *)

Contains(lines, line) == \E i \in DOMAIN lines : lines[i] = line

\* line a is printed, and line b after it
Before(lines, a, b) ==
    \E i \in DOMAIN lines, j \in DOMAIN lines : i < j /\ lines[i] = a /\ lines[j] = b

Quoted(path) == <<"\"">> \o path \o <<"\" \"%1\"">>

InProgIdTree(k) == k[1] = prog_id

NoAssociations ==
    /\ ExtKey(1) \notin DOMAIN reg
    /\ ExtKey(2) \notin DOMAIN reg
    /\ \A k \in DOMAIN reg : ~InProgIdTree(k)

SameInputsAsBefore ==
    /\ prevInstall.ok
    /\ prevInstall.exe = original_exe_path
    /\ prevInstall.icon = icon_path
    /\ prevInstall.icon_exists = icon_exists
    /\ prevInstall.command = full_command

\* C1: when an install in which every step succeeded is followed by a
\* remove_shortcut() run in which no OS call fails, the run ends with no
\* shortcut where install put it, no extension key and no ProgID key.
C1_RemovalInverse ==
    (pc = "done" /\ op = "remove" /\ ~faulted /\ prevInstall.ok)
    => /\ MakeShortcutLocation(system) \notin DOMAIN files
       /\ NoAssociations

\* C2: an install() run in which no OS call fails, made right after such a
\* run with the same executable, icon and shortcut command, modifies nothing,
\* and ends with exactly one shortcut and, on Windows, exactly the ProgID
\* subtree and the two extension keys bound to it.
C2_InstallIdempotent ==
    (pc = "done" /\ op = "install" /\ ~faulted /\ SameInputsAsBefore)
    => /\ ~mutated
       /\ DOMAIN files = {MakeShortcutLocation(system)}
       /\ files[MakeShortcutLocation(system)] =
              [script |-> full_command, icon |-> icon_path]
       /\ IF system = "Windows"
          THEN /\ {ProgIdKey, CommandKey, ExtKey(1), ExtKey(2)} \subseteq DOMAIN reg
               /\ DOMAIN reg \subseteq
                     Prefixes(CommandKey) \cup {IconKey, ExtKey(1), ExtKey(2)}
               /\ reg[ExtKey(1)] = <<prog_id>>
               /\ reg[ExtKey(2)] = <<prog_id>>
               /\ reg[CommandKey] = Quoted(original_exe_path)
          ELSE reg = EmptyReg

C2_SecondInstall ==
    /\ pc = "done" /\ op = "install" /\ ~faulted /\ SameInputsAsBefore
    /\ system = "Windows"
    /\ full_command # original_exe_path
    /\ IconKey \in DOMAIN reg

BenignRemoveLines ==
    {"Unregistering file associations...", "File associations unregistered.",
     "Shortcut not found at expected location",
     "Removal not fully supported/automated for OS"}

\* C3: a remove_shortcut() run that starts with no shortcut, no extension
\* key and no ProgID key, and in which no OS call fails on its own, modifies
\* nothing, reports no failure and no removal, and ends (on Windows, Linux
\* and Darwin) with the shortcut reported as not found.
C3_RemoveNothingInstalled ==
    (op = "remove" /\ preEmpty /\ ~faulted)
    => /\ ~mutated
       /\ NoArtifacts
       /\ \A i \in DOMAIN stdout : stdout[i] \in BenignRemoveLines
       /\ (pc = "done" /\ system # "Java")
              => stdout[Len(stdout)] = "Shortcut not found at expected location"

C3_RemovedNothing ==
    /\ pc = "done" /\ op = "remove" /\ preEmpty /\ ~faulted
    /\ system = "Windows"
    /\ shortcut_path # None

ArgsOf(env, exe) == <<"run -n ">> \o env \o <<" \"">> \o exe \o <<"\"">>

EndsWith(s, t) ==
    Len(s) > Len(t) /\ SubSeq(s, Len(s) - Len(t) + 1, Len(s)) = t

\* C4 as stated: the shortcut command goes through the runner whenever the
\* environment name is present, non-empty and not "base", whatever the
\* runner path; else it is the bare executable path.
C4_WrapWheneverEnvNamed ==
    (op = "install" /\ pc = "make_shortcut")
    => IF Truthy(conda_env) /\ conda_env # <<"base">>
       THEN EndsWith(full_command, ArgsOf(conda_env, original_exe_path))
       ELSE full_command = original_exe_path

\* C4, amended: the shortcut command is "<runner>" run -n <name> "<exe>"
\* exactly when the environment name is present, non-empty and not "base"
\* and the runner path is present and non-empty; in every other case it is
\* the bare executable path.
C4_WrapNeedsRunner ==
    (op = "install" /\ pc = "make_shortcut")
    => IF Truthy(conda_env) /\ conda_env # <<"base">> /\ Truthy(conda_exe)
       THEN full_command = <<"\"">> \o conda_exe \o <<"\" ">>
                           \o ArgsOf(conda_env, original_exe_path)
       ELSE full_command = original_exe_path

C4_Wrapped ==
    /\ op = "install" /\ pc = "make_shortcut"
    /\ conda_env = <<"envA">>
    /\ Truthy(conda_exe)
    /\ EndsWith(full_command, ArgsOf(conda_env, original_exe_path))

\* C5: once register_file_associations_windows has written the open command
\* in an install() run, its value is "<E>" "%1" for the path E the locator
\* returned, also when the shortcut goes through the runner.
C5_OpenCommandUnwrapped ==
    (op = "install" /\ (pc = "reg_ext" \/ Contains(stdout, "Associated .pmeprj")))
    => /\ CommandKey \in DOMAIN reg
       /\ reg[CommandKey] = Quoted(original_exe_path)
       /\ original_exe_path[1] \in {LocalDir, PathDir}

C5_WrittenWhileWrapped ==
    /\ op = "install" /\ pc = "reg_ext"
    /\ full_command # original_exe_path
    /\ reg[CommandKey] = Quoted(original_exe_path)

\* C6: an install() run in which find_executable found nothing has returned
\* after the error message without modifying the shortcuts or the registry.
C6_NotFoundAborts ==
    (op = "install" /\ ~Truthy(original_exe_path))
    => /\ pc = "done"
       /\ ~mutated
       /\ stdout[Len(stdout)] = "Error: Command not found"

C6_AbortedOverArtifacts ==
    /\ op = "install" /\ ~Truthy(original_exe_path) /\ pc = "done"
    /\ system = "Windows"
    /\ ~NoArtifacts

\* C7: on Windows, an install() run whose make_shortcut call failed goes on
\* to register the associations with the located executable and returns
\* after its closing lines; registration never starts before the shortcut
\* step.
C7_ShortcutFailureNotFatal ==
    (op = "install" /\ system = "Windows")
    => /\ Contains(stdout, "Failed to create shortcut")
          => /\ Truthy(original_exe_path)
             /\ pc \in {"reg_progid", "reg_icon", "reg_command", "reg_ext", "done"}
             /\ pc = "done"
                  => /\ Before(stdout, "Failed to create shortcut",
                               "Registering file associations...")
                     /\ stdout[Len(stdout)] = "You can remove the shortcut"
       /\ Contains(stdout, "Registering file associations...")
          => Before(stdout, "Creating shortcut", "Registering file associations...")

C7_RegisteredAfterFailure ==
    /\ op = "install" /\ system = "Windows" /\ pc = "done"
    /\ Contains(stdout, "Failed to create shortcut")
    /\ Contains(stdout, "File associations registered successfully.")
    /\ reg[CommandKey] = Quoted(original_exe_path)

\* C8: while no registry call fails, every frame of delete_registry_tree has
\* as many subkeys left as rounds of its loop left, so the key is empty when
\* it is deleted, and delete_registry_tree on the ProgID returns with the
\* ProgID and every key below it removed.
C8_RecursiveDelete ==
    (op = "remove" /\ ~faulted)
    => /\ (pc = "drt" /\ Top.at = "loop")
            => Cardinality(SubKeys(reg, Top.path)) = Top.n - Top.i
       /\ (pc = "rm_shortcut")
            => /\ \A k \in DOMAIN reg : ~InProgIdTree(k)
               /\ ~preEmpty => Contains(stdout, "Removed registry tree")

C8_NestedKeyEmptied ==
    /\ op = "remove" /\ ~faulted /\ pc = "drt"
    /\ Len(stack) = 3
    /\ Top.at = "loop" /\ Top.n >= 1 /\ Top.i = Top.n

LowerExe(p) ==
    IF Len(p) > 0 /\ p[Len(p)] = ".EXE"
    THEN SubSeq(p, 1, Len(p) - 1) \o <<".exe">>
    ELSE p

SamePath(p, q) == IF system = "Windows" THEN LowerExe(p) = LowerExe(q) ELSE p = q

SiblingCandidate ==
    IF system = "Windows" /\ probe.name[Len(probe.name)] \notin {".exe", ".EXE"}
    THEN <<LocalDir>> \o probe.name \o <<".exe">>
    ELSE <<LocalDir>> \o probe.name

\* C9: find_executable returns the candidate beside the launcher when it is
\* a file and executable, whatever shutil.which answers; else what
\* shutil.which answers; and None only when that is nothing either (on
\* Windows up to the case of the .exe suffix).
C9_LocatorPrecedence ==
    pc = "located"
    => IF probe.is_file /\ probe.x_ok
       THEN SamePath(located, SiblingCandidate)
       ELSE IF probe.which # None
       THEN SamePath(located, probe.which)
       ELSE located = None

C9_LocalWins ==
    /\ pc = "located"
    /\ probe.is_file /\ probe.x_ok
    /\ probe.which # None
    /\ located[1] = LocalDir

Bound(i) == ExtKey(i) \in DOMAIN reg /\ reg[ExtKey(i)] = <<prog_id>>

\* an extension bound to the ProgID finds the ProgID and its open command
Resolves(i) == Bound(i) => (ProgIdKey \in DOMAIN reg /\ CommandKey \in DOMAIN reg)

====
